---- MODULE Spec2Model ----
(***************************************************************************)
(* Model of the two upload scripts of the repository:                      *)
(*   src/test.py   the document script                                     *)
(*   src/test2.py  the image-capable script                                *)
(* Each script is one linear run of main(): validate_inputs, bucket        *)
(* resolution, build_s3_key, upload_file_to_s3 and (test2.py) the block    *)
(* printed for image uploads.  Both runs read the same command line, the   *)
(* same file system and the same settings, so that their outcomes can be   *)
(* compared.  Strings are sequences of one-character strings.              *)
(***************************************************************************)
EXTENDS Integers, Sequences, FiniteSets, TLC

\* ------------------------------------------------------------ bounds
\* longest --key value enumerated
MaxKeyLen == 2
\* longest --folder value enumerated
MaxFolderLen == 2

\* ------------------------------------------------------------ strings
RECURSIVE StrOver(_, _)
\* all strings over alphabet A of length n
StrOver(A, n) ==
    IF n = 0 THEN {<<>>}
    ELSE {<<c>> \o s : c \in A, s \in StrOver(A, n - 1)}

\* all strings over alphabet A of length 0..n
StrUpTo(A, n) == UNION {StrOver(A, k) : k \in 0..n}

\* Python None / a str value, for optional arguments
None == [some |-> FALSE, val |-> <<>>]
Some(s) == [some |-> TRUE, val |-> s]

\* Python truthiness of an optional str: None and "" are falsy
Truthy(o) == o.some /\ Len(o.val) > 0

\* str.startswith(c) for a one-character prefix
startswith(s, c) == Len(s) > 0 /\ s[1] = c

\* str.endswith(c) for a one-character suffix
endswith(s, c) == Len(s) > 0 /\ s[Len(s)] = c

\* s[1:]
DropFirst(s) == SubSeq(s, 2, Len(s))

RECURSIVE lstrip(_, _)
\* str.lstrip(c): every leading c removed
lstrip(s, c) == IF startswith(s, c) THEN lstrip(DropFirst(s), c) ELSE s

RECURSIVE rstrip(_, _)
\* str.rstrip(c): every trailing c removed
rstrip(s, c) == IF endswith(s, c) THEN rstrip(SubSeq(s, 1, Len(s) - 1), c) ELSE s

\* str.strip(c)
strip(s, c) == rstrip(lstrip(s, c), c)

\* str.lower() on the characters the model uses
LowerChar(c) ==
    CASE c = "P" -> "p"
      [] c = "D" -> "d"
      [] c = "F" -> "f"
      [] c = "N" -> "n"
      [] c = "G" -> "g"
      [] OTHER -> c

lower(s) == [i \in 1..Len(s) |-> LowerChar(s[i])]

\* positions of character c in s
Positions(s, c) == {i \in 1..Len(s) : s[i] = c}

\* str.rfind(c), 1-based, 0 when absent
rfind(s, c) ==
    IF Positions(s, c) = {} THEN 0
    ELSE CHOOSE i \in Positions(s, c) : \A j \in Positions(s, c) : j <= i

\* whether t occurs in s as a contiguous substring
Contains(s, t) ==
    \E i \in 1..(Len(s) - Len(t) + 1) : SubSeq(s, i, i + Len(t) - 1) = t

\* ------------------------------------------------------------ paths
\* PurePath.name: the last component of a path
PathName(p) == SubSeq(p, rfind(p, "/") + 1, Len(p))

\* PurePath.suffix: the last component from its last dot on, when that dot
\* is neither its first nor its last character; "" otherwise
PathSuffix(p) ==
    LET name == PathName(p)
        i == rfind(name, ".")
    IN IF 1 < i /\ i < Len(name) THEN SubSeq(name, i, Len(name)) ELSE <<>>

\* the directory the scripts are started in; resolve() makes paths absolute
Cwd == <<"/", "w", "/">>

\* SUPPORTED_IMAGE_EXTENSIONS
SUPPORTED_IMAGE_EXTENSIONS ==
    { <<".", "p", "n", "g">>, <<".", "j", "p", "g">>, <<".", "j", "p", "e", "g">>,
      <<".", "g", "i", "f">>, <<".", "w", "e", "b", "p">>, <<".", "b", "m", "p">> }

PdfSuffix == <<".", "p", "d", "f">>

\* ------------------------------------------------------------ inputs
\* file names on disk
FileNames ==
    { <<"r", ".", "p", "d", "f">>, <<"R", ".", "P", "D", "F">>,
      <<"n", ".", "t", "x", "t">>, <<"n">>, <<".", "p", "n", "g">>,
      <<"i", ".", "P", "N", "G">> }
    \cup {<<"i">> \o e : e \in SUPPORTED_IMAGE_EXTENSIONS}

\* what --file names: arg is the path as typed, kind is what the resolved
\* path is on disk, resolved is Path(arg).expanduser().resolve()
PlainFiles == {[arg |-> n, kind |-> "file", resolved |-> Cwd \o n] : n \in FileNames}

MissingFiles ==
    {[arg |-> n, kind |-> "missing", resolved |-> Cwd \o n] :
        n \in {<<"r", ".", "p", "d", "f">>, <<"i", ".", "p", "n", "g">>}}

Directories ==
    {[arg |-> n, kind |-> "dir", resolved |-> Cwd \o n] :
        n \in {<<"n">>, <<"i", ".", "p", "n", "g">>, <<"r", ".", "p", "d", "f">>}}

\* symbolic links: the typed name and the resolved name differ
SymLinks ==
    { [arg |-> <<"i", ".", "p", "n", "g">>, kind |-> "file",
       resolved |-> Cwd \o <<"n", ".", "t", "x", "t">>],
      [arg |-> <<"n", ".", "t", "x", "t">>, kind |-> "file",
       resolved |-> Cwd \o <<"i", ".", "p", "n", "g">>],
      [arg |-> <<"i", ".", "g", "i", "f">>, kind |-> "file",
       resolved |-> Cwd \o <<"i", ".", "b", "m", "p">>] }

FileCases == PlainFiles \cup MissingFiles \cup Directories \cup SymLinks

\* --key: absent, or a string (possibly empty)
KeyArgs == {None} \cup {Some(s) : s \in StrUpTo({"/", "k"}, MaxKeyLen)}

\* --folder: absent, or a string (possibly empty)
FolderArgs == {None} \cup {Some(s) : s \in StrUpTo({"/", "f"}, MaxFolderLen)}

\* --bucket: absent, empty or a name
BucketArgs == {None, Some(<<>>), Some(<<"b">>)}

\* settings.AWS_BUCKET_NAME: empty or a name
ConfiguredBuckets == {<<>>, <<"c">>}

\* argparse default of --folder
DefaultFolder == <<"d", "u", "m", "m", "y", "_", "i", "m", "a", "g", "e">>

Scripts == {"test", "test2"}

VARIABLES
    argv,            \* the command line: file, key, folder, bucket, image; test.py is
                     \* run on file, key and bucket, the options it defines
    AWS_BUCKET_NAME, \* settings.AWS_BUCKET_NAME
    pc,              \* per script: the next step of main()
    exit_code,       \* per script: -1 while running, else the exit status
    is_image,        \* test2.py main(): is_image
    local_file_path, \* per script: main()'s local_file_path
    bucket_name,     \* per script: main()'s bucket_name
    object_key,      \* per script: main()'s object_key
    uploads,         \* per script: the s3.upload_file calls made, in order
    log              \* per script: the logger calls made, in order

vars == <<argv, AWS_BUCKET_NAME, pc, exit_code, is_image, local_file_path,
          bucket_name, object_key, uploads, log>>

\* one logger call
Entry(level, event, text) == [level |-> level, event |-> event, text |-> text]

\* ------------------------------------------------------------ functions
\* the outcome of a function that may call sys.exit(1): whether it returned,
\* what it returned, and the logger calls it made
Returned(value, entries) == [ok |-> TRUE, value |-> value, log |-> entries]
Exited(entries) == [ok |-> FALSE, value |-> <<>>, log |-> entries]

\* test.py validate_inputs with the is_file() check left out
test_validate_inputs_NoFileCheck(f) ==
    IF f.kind = "missing"
    THEN Exited(<<Entry("error", "File not found", f.resolved)>>)
    ELSE IF lower(PathSuffix(f.resolved)) # PdfSuffix
    THEN Returned(f.resolved, <<Entry("warning", "no .pdf extension", <<>>)>>)
    ELSE Returned(f.resolved, <<>>)

\* test.py validate_inputs with the extension check made fatal
test_validate_inputs_StrictPdf(f) ==
    IF f.kind = "missing"
    THEN Exited(<<Entry("error", "File not found", f.resolved)>>)
    ELSE IF f.kind # "file"
    THEN Exited(<<Entry("error", "Not a file", f.resolved)>>)
    ELSE IF lower(PathSuffix(f.resolved)) # PdfSuffix
    THEN Exited(<<Entry("error", "no .pdf extension", <<>>)>>)
    ELSE Returned(f.resolved, <<>>)

\* test.py validate_inputs(local_path)
test_validate_inputs(f) ==
    IF f.kind = "missing"
    THEN Exited(<<Entry("error", "File not found", f.resolved)>>)
    ELSE IF f.kind # "file"
    THEN Exited(<<Entry("error", "Not a file", f.resolved)>>)
    ELSE IF lower(PathSuffix(f.resolved)) # PdfSuffix
    THEN Returned(f.resolved, <<Entry("warning", "no .pdf extension", <<>>)>>)
    ELSE Returned(f.resolved, <<>>)

\* test2.py validate_inputs with the image extension check only warning
test2_validate_inputs_LenientImage(f, image) ==
    LET suffix == lower(PathSuffix(f.resolved)) IN
    IF f.kind = "missing"
    THEN Exited(<<Entry("error", "File not found", f.resolved)>>)
    ELSE IF f.kind # "file"
    THEN Exited(<<Entry("error", "Not a file", f.resolved)>>)
    ELSE IF image
    THEN IF suffix \notin SUPPORTED_IMAGE_EXTENSIONS
         THEN Returned(f.resolved, <<Entry("warning", "Unsupported image format", suffix)>>)
         ELSE Returned(f.resolved, <<>>)
    ELSE IF suffix # PdfSuffix
    THEN Returned(f.resolved, <<Entry("warning", "no .pdf extension", <<>>)>>)
    ELSE Returned(f.resolved, <<>>)

\* test2.py validate_inputs(local_path, is_image)
test2_validate_inputs(f, image) ==
    LET suffix == lower(PathSuffix(f.resolved)) IN
    IF f.kind = "missing"
    THEN Exited(<<Entry("error", "File not found", f.resolved)>>)
    ELSE IF f.kind # "file"
    THEN Exited(<<Entry("error", "Not a file", f.resolved)>>)
    ELSE IF image
    THEN IF suffix \notin SUPPORTED_IMAGE_EXTENSIONS
         THEN Exited(<<Entry("error", "Unsupported image format", suffix)>>)
         ELSE Returned(f.resolved, <<>>)
    ELSE IF suffix # PdfSuffix
    THEN Returned(f.resolved, <<Entry("warning", "no .pdf extension", <<>>)>>)
    ELSE Returned(f.resolved, <<>>)

\* infer_content_type(file_path): mimetypes.guess_type by extension, the
\* extension looked up in lower case, or the generic binary type
infer_content_type(p) ==
    LET e == lower(PathSuffix(p)) IN
    CASE e = PdfSuffix -> "application/pdf"
      [] e = <<".", "p", "n", "g">> -> "image/png"
      [] e = <<".", "j", "p", "g">> -> "image/jpeg"
      [] e = <<".", "j", "p", "e", "g">> -> "image/jpeg"
      [] e = <<".", "g", "i", "f">> -> "image/gif"
      [] e = <<".", "w", "e", "b", "p">> -> "image/webp"
      [] e = <<".", "b", "m", "p">> -> "image/bmp"
      [] e = <<".", "t", "x", "t">> -> "text/plain"
      [] OTHER -> "application/octet-stream"

\* test.py build_s3_key with every leading slash of the key removed
test_build_s3_key_StripAll(p, s3_key) ==
    IF Truthy(s3_key) THEN lstrip(s3_key.val, "/") ELSE PathName(p)

\* test.py build_s3_key(local_file_path, s3_key)
test_build_s3_key(p, s3_key) ==
    IF Truthy(s3_key)
    THEN IF startswith(s3_key.val, "/") THEN DropFirst(s3_key.val) ELSE s3_key.val
    ELSE PathName(p)

\* test2.py build_s3_key with the folder prefix left out
test2_build_s3_key_NoFolder(p, s3_key, folder) ==
    IF Truthy(s3_key)
    THEN IF startswith(s3_key.val, "/") THEN DropFirst(s3_key.val) ELSE s3_key.val
    ELSE PathName(p)

\* test2.py build_s3_key(local_file_path, s3_key, folder)
test2_build_s3_key(p, s3_key, folder) ==
    IF Truthy(s3_key)
    THEN IF startswith(s3_key.val, "/") THEN DropFirst(s3_key.val) ELSE s3_key.val
    ELSE IF Truthy(folder)
    THEN strip(folder.val, "/") \o <<"/">> \o PathName(p)
    ELSE PathName(p)

\* f"s3://{bucket_name}/{object_key}"
S3Path(b, k) == <<"s", "3", ":", "/", "/">> \o b \o <<"/">> \o k

\* the s3.upload_file call of upload_file_to_s3
UploadCall(p, b, k) ==
    [Filename |-> p, Bucket |-> b, Key |-> k, ContentType |-> infer_content_type(p)]

\* upload_file_to_s3(local_file_path, bucket_name, object_key) of either
\* script, for a transfer that succeeds (ok) or raises: the logger calls made
UploadLog(b, k, ok) ==
    <<Entry("info", "Uploading to S3", b \o <<" ">> \o k)>> \o
    IF ok THEN <<Entry("success", "Upload complete", S3Path(b, k))>>
    ELSE <<Entry("error", "Upload failed", <<>>)>>

\* args.bucket or settings.AWS_BUCKET_NAME
EffectiveBucket(override, configured) ==
    IF Truthy(override) THEN override.val ELSE configured

\* args.folder: the value given, or argparse's default
FolderArg(a) == IF a.folder.some THEN a.folder ELSE Some(DefaultFolder)

\* test2.py main(): args.image or the typed path's extension is an image one
DetectImage(a) ==
    a.image \/ lower(PathSuffix(a.file.arg)) \in SUPPORTED_IMAGE_EXTENSIONS

\* the block test2.py prints after an image upload
ImageBlock(k, p, b) ==
    << Entry("info", "rule", <<>>),
       Entry("info", "To test the /upload-image endpoint", <<>>),
       Entry("info", "file_path", k),
       Entry("info", "file_name", PathName(p)),
       Entry("info", "s3_bucket_name", b),
       Entry("info", "rule", <<>>) >>

\* ------------------------------------------------------------ state machine
Init ==
    /\ argv \in [file : FileCases, key : KeyArgs, folder : FolderArgs,
                 bucket : BucketArgs, image : BOOLEAN]
    /\ AWS_BUCKET_NAME \in ConfiguredBuckets
    /\ pc = [s \in Scripts |-> "validate"]
    /\ exit_code = [s \in Scripts |-> -1]
    /\ is_image = FALSE
    /\ local_file_path = [s \in Scripts |-> <<>>]
    /\ bucket_name = [s \in Scripts |-> <<>>]
    /\ object_key = [s \in Scripts |-> <<>>]
    /\ uploads = [s \in Scripts |-> <<>>]
    /\ log = [s \in Scripts |-> <<>>]

\* sys.exit(status), or main() returning (status 0)
Exit(s, status) ==
    /\ pc' = [pc EXCEPT ![s] = "exited"]
    /\ exit_code' = [exit_code EXCEPT ![s] = status]

Goto(s, step) ==
    /\ pc' = [pc EXCEPT ![s] = step]
    /\ UNCHANGED exit_code

Say(s, entries) == log' = [log EXCEPT ![s] = @ \o entries]

\* test.py main(): local_file_path = validate_inputs(args.file)
test_validate ==
    /\ pc["test"] = "validate"
    /\ LET r == test_validate_inputs(argv.file) IN
        /\ Say("test", r.log)
        /\ IF r.ok
           THEN /\ local_file_path' = [local_file_path EXCEPT !["test"] = r.value]
                /\ Goto("test", "bucket")
           ELSE /\ UNCHANGED local_file_path
                /\ Exit("test", 1)
    /\ UNCHANGED <<argv, AWS_BUCKET_NAME, is_image, bucket_name, object_key, uploads>>

\* test.py main(): bucket resolution
test_bucket ==
    /\ pc["test"] = "bucket"
    /\ LET b == EffectiveBucket(argv.bucket, AWS_BUCKET_NAME) IN
        /\ bucket_name' = [bucket_name EXCEPT !["test"] = b]
        /\ IF Len(b) = 0
           THEN /\ Say("test", <<Entry("error", "Bucket name is not configured", <<>>)>>)
                /\ Exit("test", 1)
           ELSE /\ UNCHANGED log
                /\ Goto("test", "key")
    /\ UNCHANGED <<argv, AWS_BUCKET_NAME, is_image, local_file_path, object_key, uploads>>

\* test.py main(): object_key = build_s3_key(...), then the configuration line
test_key ==
    /\ pc["test"] = "key"
    /\ object_key' = [object_key EXCEPT
                        !["test"] = test_build_s3_key(local_file_path["test"], argv.key)]
    /\ Say("test", <<Entry("info", "Using AWS configuration", bucket_name["test"])>>)
    /\ Goto("test", "upload")
    /\ UNCHANGED <<argv, AWS_BUCKET_NAME, is_image, local_file_path, bucket_name, uploads>>

\* test.py main(): upload_file_to_s3(...), the transfer succeeding or raising;
\* main() then returns
test_upload ==
    /\ pc["test"] = "upload"
    /\ \E ok \in BOOLEAN :
        /\ uploads' = [uploads EXCEPT !["test"] =
              Append(@, UploadCall(local_file_path["test"], bucket_name["test"],
                                   object_key["test"]))]
        /\ Say("test", UploadLog(bucket_name["test"], object_key["test"], ok))
        /\ Exit("test", IF ok THEN 0 ELSE 1)
    /\ UNCHANGED <<argv, AWS_BUCKET_NAME, is_image, local_file_path, bucket_name, object_key>>

\* test2.py main(): mode detection, then validate_inputs(args.file, is_image)
test2_validate ==
    /\ pc["test2"] = "validate"
    /\ is_image' = DetectImage(argv)
    /\ LET r == test2_validate_inputs(argv.file, DetectImage(argv)) IN
        /\ Say("test2", r.log)
        /\ IF r.ok
           THEN /\ local_file_path' = [local_file_path EXCEPT !["test2"] = r.value]
                /\ Goto("test2", "bucket")
           ELSE /\ UNCHANGED local_file_path
                /\ Exit("test2", 1)
    /\ UNCHANGED <<argv, AWS_BUCKET_NAME, bucket_name, object_key, uploads>>

\* test2.py bucket resolution with the emptiness check left out
test2_bucket_NoCheck ==
    /\ pc["test2"] = "bucket"
    /\ bucket_name' = [bucket_name EXCEPT
                         !["test2"] = EffectiveBucket(argv.bucket, AWS_BUCKET_NAME)]
    /\ Goto("test2", "key")
    /\ UNCHANGED <<argv, AWS_BUCKET_NAME, is_image, local_file_path, object_key,
                   uploads, log>>

\* test2.py main(): bucket resolution
test2_bucket ==
    /\ pc["test2"] = "bucket"
    /\ LET b == EffectiveBucket(argv.bucket, AWS_BUCKET_NAME) IN
        /\ bucket_name' = [bucket_name EXCEPT !["test2"] = b]
        /\ IF Len(b) = 0
           THEN /\ Say("test2", <<Entry("error", "Bucket name is not configured", <<>>)>>)
                /\ Exit("test2", 1)
           ELSE /\ UNCHANGED log
                /\ Goto("test2", "key")
    /\ UNCHANGED <<argv, AWS_BUCKET_NAME, is_image, local_file_path, object_key, uploads>>

\* test2.py main(): object_key = build_s3_key(..., folder=args.folder), then
\* the configuration line
test2_key ==
    /\ pc["test2"] = "key"
    /\ object_key' = [object_key EXCEPT !["test2"] =
          test2_build_s3_key(local_file_path["test2"], argv.key, FolderArg(argv))]
    /\ Say("test2", <<Entry("info", "Using AWS configuration", bucket_name["test2"])>>)
    /\ Goto("test2", "upload")
    /\ UNCHANGED <<argv, AWS_BUCKET_NAME, is_image, local_file_path, bucket_name, uploads>>

\* test2.py upload step with the sys.exit(1) of the except branch left out
test2_upload_NoExit ==
    /\ pc["test2"] = "upload"
    /\ \E ok \in BOOLEAN :
        /\ uploads' = [uploads EXCEPT !["test2"] =
              Append(@, UploadCall(local_file_path["test2"], bucket_name["test2"],
                                   object_key["test2"]))]
        /\ Say("test2", UploadLog(bucket_name["test2"], object_key["test2"], ok))
        /\ Goto("test2", "block")
    /\ UNCHANGED <<argv, AWS_BUCKET_NAME, is_image, local_file_path, bucket_name, object_key>>

\* test2.py main(): s3_path = upload_file_to_s3(...), the transfer succeeding
\* or raising
test2_upload ==
    /\ pc["test2"] = "upload"
    /\ \E ok \in BOOLEAN :
        /\ uploads' = [uploads EXCEPT !["test2"] =
              Append(@, UploadCall(local_file_path["test2"], bucket_name["test2"],
                                   object_key["test2"]))]
        /\ Say("test2", UploadLog(bucket_name["test2"], object_key["test2"], ok))
        /\ IF ok THEN Goto("test2", "block") ELSE Exit("test2", 1)
    /\ UNCHANGED <<argv, AWS_BUCKET_NAME, is_image, local_file_path, bucket_name, object_key>>

\* test2.py block step with the is_image test left out
test2_block_Always ==
    /\ pc["test2"] = "block"
    /\ Say("test2", ImageBlock(object_key["test2"], local_file_path["test2"],
                               bucket_name["test2"]))
    /\ Exit("test2", 0)
    /\ UNCHANGED <<argv, AWS_BUCKET_NAME, is_image, local_file_path, bucket_name,
                   object_key, uploads>>

\* test2.py main(): the block printed in image mode; main() then returns
test2_block ==
    /\ pc["test2"] = "block"
    /\ Say("test2", IF is_image
                    THEN ImageBlock(object_key["test2"], local_file_path["test2"],
                                    bucket_name["test2"])
                    ELSE <<>>)
    /\ Exit("test2", 0)
    /\ UNCHANGED <<argv, AWS_BUCKET_NAME, is_image, local_file_path, bucket_name,
                   object_key, uploads>>

Next ==
    \/ test_validate
    \/ test_bucket
    \/ test_key
    \/ test_upload
    \/ test2_validate
    \/ test2_bucket
    \/ test2_key
    \/ test2_upload
    \/ test2_block

Spec == Init /\ [][Next]_vars

\* ------------------------------------------------------------ observations
\* the logger calls of script s for one event
Logged(s, event) == {i \in 1..Len(log[s]) : log[s][i].event = event}

\* the script has left validate_inputs by returning from it
Validated(s) == pc[s] # "validate" /\ local_file_path[s] = argv.file.resolved

\* the script has left validate_inputs through sys.exit(1)
ValidationFatal(s) ==
    /\ pc[s] = "exited"
    /\ exit_code[s] = 1
    /\ local_file_path[s] = <<>>
    /\ bucket_name[s] = <<>>
    /\ object_key[s] = <<>>
    /\ uploads[s] = <<>>

\* the script is past build_s3_key
KeyBuilt(s) == pc[s] \in {"upload", "block"} \/ uploads[s] # <<>>

\* an existing regular file whose resolved name ends in .pdf, in any case
IsPdf(f) == f.kind = "file" /\ lower(PathSuffix(f.resolved)) = PdfSuffix

\* no bucket from --bucket and none from the settings
NoBucket == ~Truthy(argv.bucket) /\ AWS_BUCKET_NAME = <<>>

\* ------------------------------------------------------------ claims

\* C1: the destination key built by build_s3_key, and so the key passed to
\* the upload operation, never begins with "/".
C1_KeyNeverStartsWithSlash ==
    \A s \in Scripts :
        /\ KeyBuilt(s) => ~startswith(object_key[s], "/")
        /\ \A i \in 1..Len(uploads[s]) : ~startswith(uploads[s][i].Key, "/")

\* C2 as stated: in either script, with a bucket override, an existing PDF,
\* no --key and no --folder, the key of the upload is the file's base name
\* and the success line contains s3://<bucket>/<filename>.
C2_Original ==
    \A s \in Scripts :
        (Truthy(argv.bucket) /\ IsPdf(argv.file) /\ ~argv.key.some /\ ~argv.folder.some)
        => /\ \A i \in 1..Len(uploads[s]) :
                uploads[s][i].Key = PathName(argv.file.resolved)
           /\ \A i \in Logged(s, "Upload complete") :
                Contains(log[s][i].text,
                         S3Path(argv.bucket.val, PathName(argv.file.resolved)))

\* C2 amended: under the same conditions test.py uploads under the file's
\* base name, while test2.py uploads under dummy_image/<base name> although
\* the run is in document mode; each success line holds s3://<bucket>/<key>.
C2_Amended ==
    (Truthy(argv.bucket) /\ IsPdf(argv.file) /\ ~argv.key.some /\ ~argv.folder.some)
    => /\ \A i \in 1..Len(uploads["test"]) :
            uploads["test"][i].Key = PathName(argv.file.resolved)
       /\ \A i \in Logged("test", "Upload complete") :
            Contains(log["test"][i].text,
                     S3Path(argv.bucket.val, PathName(argv.file.resolved)))
       /\ \A i \in 1..Len(uploads["test2"]) :
            /\ ~is_image
            /\ uploads["test2"][i].Key =
                 DefaultFolder \o <<"/">> \o PathName(argv.file.resolved)
       /\ \A i \in Logged("test2", "Upload complete") :
            Contains(log["test2"][i].text,
                     S3Path(argv.bucket.val,
                            DefaultFolder \o <<"/">> \o PathName(argv.file.resolved)))

\* C2 witness: both scripts have uploaded the same PDF successfully, with a
\* bucket override and neither --key nor --folder.
C2_Witness ==
    /\ Truthy(argv.bucket) /\ IsPdf(argv.file) /\ ~argv.key.some /\ ~argv.folder.some
    /\ \A s \in Scripts : Logged(s, "Upload complete") # {} /\ exit_code[s] = 0

\* C3: with no bucket from the override and none configured the run exits
\* with status 1 and never invokes the upload; every upload carries a
\* non-empty bucket, the override when given and the configured one otherwise.
C3_NoBucketNoUpload ==
    \A s \in Scripts :
        /\ NoBucket =>
              /\ uploads[s] = <<>>
              /\ pc[s] \in {"validate", "bucket", "exited"}
              /\ pc[s] = "exited" => exit_code[s] = 1
        /\ \A i \in 1..Len(uploads[s]) :
              /\ uploads[s][i].Bucket # <<>>
              /\ uploads[s][i].Bucket =
                   IF argv.bucket.some /\ argv.bucket.val # <<>>
                   THEN argv.bucket.val ELSE AWS_BUCKET_NAME

\* C3 witness: a valid file, no bucket anywhere, and both runs have exited
\* at bucket resolution.
C3_Witness ==
    /\ NoBucket
    /\ argv.file.kind = "file"
    /\ \A s \in Scripts :
          /\ Validated(s)
          /\ exit_code[s] = 1
          /\ Logged(s, "Bucket name is not configured") # {}

\* C4: for a path that does not exist or is not a regular file both scripts
\* exit with status 1 in validate_inputs, in either mode, and bucket
\* resolution, key building and the upload are never reached.
C4_BadPathFatal ==
    \A s \in Scripts :
        argv.file.kind # "file" =>
            /\ pc[s] \in {"validate", "exited"}
            /\ pc[s] = "exited" => ValidationFatal(s)
            /\ pc[s] = "exited" =>
                  /\ Len(log[s]) = 1
                  /\ log[s][1].level = "error"
                  /\ log[s][1].event =
                       IF argv.file.kind = "missing"
                       THEN "File not found" ELSE "Not a file"

\* C4 witness: --file names a directory and both runs have exited.
C4_Witness ==
    /\ argv.file.kind = "dir"
    /\ \A s \in Scripts : pc[s] = "exited" /\ exit_code[s] = 1

\* C5: for an existing regular file validated in image mode (by --image or
\* by the typed extension), an extension outside the supported set is fatal
\* (status 1, no upload) and one inside it passes, returning the resolved path.
C5_ImageExtension ==
    LET image == argv.image \/ lower(PathSuffix(argv.file.arg)) \in SUPPORTED_IMAGE_EXTENSIONS
        inside == lower(PathSuffix(argv.file.resolved)) \in SUPPORTED_IMAGE_EXTENSIONS
    IN (argv.file.kind = "file" /\ image /\ pc["test2"] # "validate") =>
          /\ is_image
          /\ inside => Validated("test2") /\ Logged("test2", "Unsupported image format") = {}
          /\ ~inside =>
                /\ ValidationFatal("test2")
                /\ Len(log["test2"]) = 1
                /\ log["test2"][1].level = "error"
                /\ log["test2"][1].event = "Unsupported image format"

\* C5 witness: an upper-case image extension has passed validation by
\* auto-detection and the image has been uploaded.
C5_Witness ==
    /\ ~argv.image
    /\ argv.file.kind = "file"
    /\ PathSuffix(argv.file.resolved) = <<".", "P", "N", "G">>
    /\ is_image
    /\ Len(uploads["test2"]) = 1

\* C5 second case, reached as well: --image with a PDF is fatal.
C5_WitnessFatal ==
    /\ argv.image
    /\ IsPdf(argv.file)
    /\ ValidationFatal("test2")

\* C6: for an existing regular file validated in document mode whose
\* extension is not .pdf, validate_inputs logs a warning, returns the
\* resolved path and the run goes on to bucket resolution and upload.
C6_NonPdfWarningOnly ==
    \A s \in Scripts :
        LET document == s = "test" \/ ~(argv.image \/
                lower(PathSuffix(argv.file.arg)) \in SUPPORTED_IMAGE_EXTENSIONS)
        IN (argv.file.kind = "file" /\ document /\ ~IsPdf(argv.file)
              /\ pc[s] # "validate") =>
              /\ Validated(s)
              /\ log[s][1] = Entry("warning", "no .pdf extension", <<>>)
              /\ \A i \in 2..Len(log[s]) : log[s][i].level # "warning"
              /\ pc[s] = "exited" => (NoBucket \/ Len(uploads[s]) = 1)
              /\ (pc[s] = "exited" /\ exit_code[s] = 1) =>
                    (NoBucket \/ Logged(s, "Upload failed") # {})

\* C6 witness: a .txt file has been uploaded by both scripts in document
\* mode, after the warning.
C6_Witness ==
    /\ argv.file.kind = "file"
    /\ PathSuffix(argv.file.resolved) = <<".", "t", "x", "t">>
    /\ ~is_image
    /\ \A s \in Scripts :
          /\ exit_code[s] = 0
          /\ Logged(s, "no .pdf extension") = {1}
          /\ Logged(s, "Upload complete") # {}

\* C7: for a non-empty explicit key the destination key is that key with
\* exactly one leading "/" removed if present and nothing else changed,
\* whatever the folder and the file are.
C7_ExplicitKeyVerbatim ==
    \A s \in Scripts :
        (argv.key.some /\ argv.key.val # <<>> /\ KeyBuilt(s)) =>
            LET k == argv.key.val IN
            /\ k[1] = "/" => object_key[s] = SubSeq(k, 2, Len(k))
            /\ k[1] # "/" => object_key[s] = k
            /\ \A i \in 1..Len(uploads[s]) : uploads[s][i].Key = object_key[s]

\* C7 witness: the key "//" has been given with a folder, and test2.py has
\* uploaded under the key "/".
C7_Witness ==
    /\ argv.key = Some(<<"/", "/">>)
    /\ Truthy(argv.folder)
    /\ Len(uploads["test2"]) = 1
    /\ uploads["test2"][1].Key = <<"/">>

\* C8: a failed upload is logged as an error and ends the run with status 1:
\* the upload is invoked at most once, and after a failure no "Upload
\* complete" line and no image block is ever logged.
C8_UploadFailureFatal ==
    \A s \in Scripts :
        /\ Len(uploads[s]) <= 1
        /\ Logged(s, "Upload failed") # {} =>
              /\ Logged(s, "Upload failed") = {Len(log[s])}
              /\ log[s][Len(log[s])].level = "error"
              /\ pc[s] = "exited"
              /\ exit_code[s] = 1
              /\ Logged(s, "Upload complete") = {}
              /\ Logged(s, "file_path") = {}
              /\ Len(uploads[s]) = 1

\* C8 witness: an image upload by test2.py has failed.
C8_Witness ==
    /\ is_image
    /\ Logged("test2", "Upload failed") # {}
    /\ pc["test2"] = "exited"

\* C9: test2.py prints the three lines file_path (the key of the upload),
\* file_name (the base name) and s3_bucket_name (the bucket) exactly when the
\* run is in image mode and the upload succeeded, after the "Upload
\* complete" line; test.py never prints them.
C9_ImageBlock ==
    LET n == Len(log["test2"])
        printed == Logged("test2", "file_path") # {}
        image == argv.image \/ lower(PathSuffix(argv.file.arg)) \in SUPPORTED_IMAGE_EXTENSIONS
    IN /\ printed =>
            /\ image
            /\ Len(uploads["test2"]) = 1
            /\ n >= 7
            /\ log["test2"][n - 6] =
                 Entry("success", "Upload complete",
                       S3Path(uploads["test2"][1].Bucket, uploads["test2"][1].Key))
            /\ log["test2"][n - 3] = Entry("info", "file_path", uploads["test2"][1].Key)
            /\ log["test2"][n - 2] =
                 Entry("info", "file_name", PathName(argv.file.resolved))
            /\ log["test2"][n - 1] =
                 Entry("info", "s3_bucket_name", uploads["test2"][1].Bucket)
            /\ Logged("test2", "file_path") = {n - 3}
            /\ Logged("test2", "file_name") = {n - 2}
            /\ Logged("test2", "s3_bucket_name") = {n - 1}
       /\ (pc["test2"] = "exited" /\ image /\ Logged("test2", "Upload complete") # {})
            => printed
       /\ (pc["test2"] = "exited" /\ exit_code["test2"] = 1) => ~printed
       /\ \A e \in {"file_path", "file_name", "s3_bucket_name"} : Logged("test", e) = {}

\* C9 witness: the block has been printed for an auto-detected image.
C9_Witness ==
    /\ ~argv.image
    /\ Logged("test2", "file_path") # {}
    /\ exit_code["test2"] = 0

\* C9 second case, reached as well: a document upload has finished without
\* the block.
C9_WitnessDocument ==
    /\ ~is_image
    /\ exit_code["test2"] = 0
    /\ Logged("test2", "Upload complete") # {}
    /\ Logged("test2", "file_path") = {}

\* the step a finished run without upload exited at
ExitedAt(s) == log[s][Len(log[s])].event

\* C10: with a non-empty --key and neither --image nor --folder, test.py and
\* test2.py reach the same outcome: both exit with status 1 at the same
\* step, or both invoke the upload once with the same bucket, key and path.
C10_ScriptsEquivalent ==
    (Truthy(argv.key) /\ ~argv.image /\ ~argv.folder.some
        /\ pc["test"] = "exited" /\ pc["test2"] = "exited")
    => \/ /\ uploads["test"] = <<>>
          /\ uploads["test2"] = <<>>
          /\ exit_code["test"] = 1
          /\ exit_code["test2"] = 1
          /\ ExitedAt("test") = ExitedAt("test2")
       \/ /\ Len(uploads["test"]) = 1
          /\ uploads["test2"] = uploads["test"]

====
